---- MODULE Spec2Model ----
(***************************************************************************)
(* Model of VerificationService (services/verification/src/services/       *)
(* VerificationService.ts): the lazily constructed Injector shared by the  *)
(* four delegated operations, metadata extraction from compiler output,    *)
(* and the address lookups that swallow repository failures.               *)
(***************************************************************************)
EXTENDS Integers, Sequences, FiniteSets, TLC

(***************************************************************************)
(* Bounds of the model.                                                    *)
(***************************************************************************)
\* concurrent callers (tasks that may hold a delegated call in flight)
NumCallers == 2
\* delegated calls started in one behaviour
MaxCalls == 3

\* longest metadata string a compilation artifact carries
MaxMetaLen == 2
\* most diagnostics in one compiler output
MaxDiags == 2
\* address lookups in one behaviour
MaxLookups == 2
\* most matches the repository store returns for one lookup
MaxMatches == 2
\* longest value of the environment variable WEB3_TIMEOUT
MaxEnvLen == 2
\* most engine calls entered while the construction options are observed
MaxObservedCalls == 2

Callers == 1..NumCallers

(***************************************************************************)
(* Values.                                                                 *)
(***************************************************************************)
\* `undefined` as held by the field  private injector: Injector | undefined
Undefined == 0

Ops == {"inject", "verifyCreate2", "recompile", "getBytecode"}

\* argument tuples a caller may pass to each operation
ArgsOf(op) ==
  CASE op = "inject"        -> {<<"input1">>, <<"input2">>}
    [] op = "verifyCreate2" -> {<<"c1", "deployer1", "salt1", "args1", "addr1">>,
                                <<"c2", "deployer2", "salt2", "args2", "addr2">>}
    [] op = "recompile"     -> {<<"c1">>, <<"c2">>}
    [] op = "getBytecode"   -> {<<"0xa", "1">>, <<"0xb", "5">>}

NoOutcome == [kind |-> "none", val |-> "none"]

\* what a promise returned by an engine method may settle to
EngineOutcomes ==
  {[kind |-> "ok", val |-> "result"], [kind |-> "fail", val |-> "EngineFailure"]}

ConstructionFailure == [kind |-> "fail", val |-> "ConstructionFailure"]

NoRequest == [method |-> "none", args |-> <<>>]

\* no options object: the call has not invoked Injector.createAsync
NoConfig ==
  [log |-> "none", repositoryPath |-> "none", fileService |-> "none",
   web3timeout |-> <<"none">>]

IdleCall ==
  [pc |-> "idle", op |-> "none", args |-> <<>>, ctors |-> 0, afterFail |-> FALSE,
   config |-> NoConfig,
   inst |-> Undefined, fwd |-> NoRequest, fwdCount |-> 0,
   engOut |-> NoOutcome, outcome |-> NoOutcome]

\* sequences over S of length at most n
SeqsUpTo(S, n) == UNION {[1..k -> S] : k \in 0..n}

(***************************************************************************)
(* The environment: process.env.WEB3_TIMEOUT.                              *)
(***************************************************************************)
\* characters of the variable's value: two digits and a letter
EnvChars == {"0", "7", "s"}

\* the variable is not set
EnvUnset == <<"<unset>">>

EnvValues == {EnvUnset} \cup SeqsUpTo(EnvChars, MaxEnvLen)

(***************************************************************************)
(* Compiler output documents and metadata strings.                         *)
(***************************************************************************)

\* characters of a metadata string: JSON whitespace, a digit, a character
\* that starts no JSON value
Chars == {" ", "7", "x"}

MetaStrings == SeqsUpTo(Chars, MaxMetaLen)

\* file paths in the order Object.keys yields them, and contract names
PathOrder == <<"A.sol", "B.sol">>

PathSet == {PathOrder[i] : i \in 1..Len(PathOrder)}

Names == {"Foo", "Bar"}

Versions == {"0.8.17"}

\* an artifact's optional metadata string
Absent == <<"<undefined>">>

Artifacts(md) == {[metadata |-> Absent], [metadata |-> md]}

\* the file -> contract name -> artifact mappings in which every metadata
\* string present is md
ContractMaps(md) ==
  UNION {[ps -> UNION {[ns -> Artifacts(md)] : ns \in (SUBSET Names) \ {{}}}]
           : ps \in SUBSET PathSet}

Diagnostics ==
  {[severity |-> "error", formattedMessage |-> "E1"],
   [severity |-> "error", formattedMessage |-> "E2"],
   [severity |-> "warning", formattedMessage |-> "W1"]}

NoOutput == [contracts |-> <<>>, errors |-> <<>>, present |-> FALSE]

CompilerOutputs ==
  {[contracts |-> cm, errors |-> es, present |-> TRUE] :
     cm \in UNION {ContractMaps(md) : md \in MetaStrings},
     es \in SeqsUpTo(Diagnostics, MaxDiags)}

NoError == [name |-> "none", message |-> <<>>]

\* what useCompiler may reject with
InvocationErrors ==
  {[name |-> "Error", message |-> <<"unknown compiler version">>],
   [name |-> "FetchError", message |-> <<"compiler download failed">>]}

\* no JSON value; a JSON value v is held as <<v>>
NoJson == <<>>

NoResult == [kind |-> "none", json |-> NoJson, error |-> NoError]

(***************************************************************************)
(* The repository store (IFileService) as the lookups see it.              *)
(***************************************************************************)
Addresses == {"0xa", "0xb"}

Chains == {"1", "5"}

Matches == {"match1", "match2"}

\* what fileService.findByAddress / findAllByAddress may do: return matches,
\* or throw
StoreOutcomes ==
  {[kind |-> "ok", matches |-> ms, error |-> "none"] : ms \in SeqsUpTo(Matches, MaxMatches)}
    \cup {[kind |-> "fail", matches |-> <<>>, error |-> e] :
             e \in {"not-found", "io-error", "malformed-record"}}

NoLookup ==
  [op |-> "none", address |-> "none", chain |-> "none", storeMethod |-> "none",
   store |-> [kind |-> "none", matches |-> <<>>, error |-> "none"], accesses |-> 0,
   logBefore |-> 0,
   result |-> [kind |-> "none", matches |-> <<>>, error |-> "none"]]

NoEntry ==
  [level |-> "none", loc |-> "none", contractPath |-> "none", contractName |-> "none",
   compilerVersion |-> "none", errorMessages |-> <<>>, address |-> "none", msg |-> "none"]

IdleMeta ==
  [pc |-> "idle", compilerVersion |-> "none", contractName |-> "none",
   output |-> NoOutput, compilerError |-> NoError, searched |-> FALSE,
   result |-> NoResult]

VARIABLES
  env,          \* process.env.WEB3_TIMEOUT
  lookup,       \* the last findByAddress / findAllByAddress call
  lookups,      \* address lookups made so far
  meta,         \* the getMetadataFromJsonInput call in flight or finished
  log,          \* entries written through this.logger, in order
  injector,     \* this.injector: Undefined or the id of an engine instance
  calls,        \* per caller: the delegated call it has in flight or last finished
  ctorCalls,    \* invocations of Injector.createAsync so far
  instances,    \* engine instances constructed so far (their ids are 1..instances)
  writes,       \* history: the values assigned to this.injector, in order
  ctorFailed,   \* history: some Injector.createAsync has rejected
  started       \* delegated calls started so far

vars == <<env, lookup, lookups, meta, log, injector, calls, ctorCalls, instances, writes, ctorFailed, started>>

engineVars == <<injector, calls, ctorCalls, instances, writes, ctorFailed, started>>

Init ==
  /\ env = EnvUnset
  /\ lookup = NoLookup
  /\ lookups = 0
  /\ meta = IdleMeta
  /\ log = <<>>
  /\ injector = Undefined
  /\ calls = [c \in Callers |-> IdleCall]
  /\ ctorCalls = 0
  /\ instances = 0
  /\ writes = <<>>
  /\ ctorFailed = FALSE
  /\ started = 0

\* the service constructed in a process with any value of WEB3_TIMEOUT
InitAnyEnv ==
  /\ env \in EnvValues
  /\ lookup = NoLookup
  /\ lookups = 0
  /\ meta = IdleMeta
  /\ log = <<>>
  /\ injector = Undefined
  /\ calls = [c \in Callers |-> IdleCall]
  /\ ctorCalls = 0
  /\ instances = 0
  /\ writes = <<>>
  /\ ctorFailed = FALSE
  /\ started = 0

(***************************************************************************)
(* Address lookups: findByAddress and findAllByAddress.                    *)
(***************************************************************************)
\* variant: the store's failure is logged and thrown on
LookupRethrows(store, address) ==
  IF store.kind = "ok"
  THEN [result |-> [kind |-> "return", matches |-> store.matches, error |-> "none"],
        entries |-> <<>>]
  ELSE [result |-> [kind |-> "throw", matches |-> <<>>, error |-> store.error],
        entries |-> <<[NoEntry EXCEPT !.level = "info",
                                      !.loc = "[POST:VERIFICATION_BY_ADDRESS_FAILED]",
                                      !.address = address,
                                      !.msg = "Could not find file in repository"]>>]

\* variant: the store's failure is swallowed without a log entry
LookupSilent(store, address) ==
  IF store.kind = "ok"
  THEN [result |-> [kind |-> "return", matches |-> store.matches, error |-> "none"],
        entries |-> <<>>]
  ELSE [result |-> [kind |-> "return", matches |-> <<>>, error |-> "none"],
        entries |-> <<>>]

\* variant: only the first match of the store is returned
LookupFirstOnly(store, address) ==
  IF store.kind = "ok"
  THEN [result |-> [kind |-> "return",
                    matches |-> SubSeq(store.matches, 1, IF store.matches = <<>> THEN 0 ELSE 1),
                    error |-> "none"],
        entries |-> <<>>]
  ELSE [result |-> [kind |-> "return", matches |-> <<>>, error |-> "none"],
        entries |-> <<[NoEntry EXCEPT !.level = "info",
                                      !.loc = "[POST:VERIFICATION_BY_ADDRESS_FAILED]",
                                      !.address = address,
                                      !.msg = "Could not find file in repository"]>>]

\* let matches = []; try { matches = <store call> } catch (err) { info log }
\* return matches
Lookup(store, address) ==
  IF store.kind = "ok"
  THEN [result |-> [kind |-> "return", matches |-> store.matches, error |-> "none"],
        entries |-> <<>>]
  ELSE [result |-> [kind |-> "return", matches |-> <<>>, error |-> "none"],
        entries |-> <<[NoEntry EXCEPT !.level = "info",
                                      !.loc = "[POST:VERIFICATION_BY_ADDRESS_FAILED]",
                                      !.address = address,
                                      !.msg = "Could not find file in repository"]>>]

\* variant: after a failure of the store the other lookup is tried
findByAddressFallsBack ==
  /\ lookups < MaxLookups
  /\ lookups' = lookups + 1
  /\ \E address \in Addresses, chain \in Chains, store \in StoreOutcomes,
        second \in StoreOutcomes :
       LET r == Lookup(IF store.kind = "ok" THEN store ELSE second, address)
       IN /\ lookup' = [op |-> "findByAddress", address |-> address, chain |-> chain,
                        storeMethod |-> IF store.kind = "ok" THEN "findByAddress"
                                        ELSE "findAllByAddress",
                        store |-> IF store.kind = "ok" THEN store ELSE second,
                        accesses |-> IF store.kind = "ok" THEN 1 ELSE 2,
                        logBefore |-> Len(log), result |-> r.result]
          /\ log' = log \o r.entries
  /\ UNCHANGED <<meta, engineVars, env>>

findByAddress ==
  /\ lookups < MaxLookups
  /\ lookups' = lookups + 1
  /\ \E address \in Addresses, chain \in Chains, store \in StoreOutcomes :
       LET r == Lookup(store, address)
       IN /\ lookup' = [op |-> "findByAddress", address |-> address, chain |-> chain,
                        storeMethod |-> "findByAddress", store |-> store,
                        accesses |-> 1, logBefore |-> Len(log),
                        result |-> r.result]
          /\ log' = log \o r.entries
  /\ UNCHANGED <<meta, engineVars, env>>

\* variant: the lookup goes through the engine and constructs it when the
\* handle is uninitialized
findAllByAddressViaEngine ==
  /\ lookups < MaxLookups
  /\ lookups' = lookups + 1
  /\ \E address \in Addresses, chain \in Chains, store \in StoreOutcomes :
       LET r == Lookup(store, address)
       IN /\ lookup' = [op |-> "findAllByAddress", address |-> address, chain |-> chain,
                        storeMethod |-> "findAllByAddress", store |-> store,
                        accesses |-> 1, logBefore |-> Len(log),
                        result |-> r.result]
          /\ log' = log \o r.entries
  /\ IF injector = Undefined
     THEN /\ ctorCalls' = ctorCalls + 1
          /\ instances' = instances + 1
          /\ injector' = instances + 1
          /\ writes' = Append(writes, instances + 1)
     ELSE UNCHANGED <<injector, ctorCalls, instances, writes>>
  /\ UNCHANGED <<meta, calls, ctorFailed, started, env>>

findAllByAddress ==
  /\ lookups < MaxLookups
  /\ lookups' = lookups + 1
  /\ \E address \in Addresses, chain \in Chains, store \in StoreOutcomes :
       LET r == Lookup(store, address)
       IN /\ lookup' = [op |-> "findAllByAddress", address |-> address, chain |-> chain,
                        storeMethod |-> "findAllByAddress", store |-> store,
                        accesses |-> 1, logBefore |-> Len(log),
                        result |-> r.result]
          /\ log' = log \o r.entries
  /\ UNCHANGED <<meta, engineVars, env>>

NextLookup ==
  \/ findByAddress
  \/ findAllByAddress

SpecLookup == Init /\ [][NextLookup]_vars

(***************************************************************************)
(* Delegated engine operations.                                            *)
(***************************************************************************)
\* variant: every operation forwarded to the engine's inject method
ForwardToInject(op, args) == [method |-> "inject", args |-> args]

\* the engine method invoked for an operation, with the arguments it receives
Forward(op, args) == [method |-> op, args |-> args]

\* the caller's promise settles as the engine's promise does
Settle(engOut) == engOut

\* the call of caller c, after this.injector.<op>(...) has been invoked on inst
Forwarded(call, inst) ==
  [call EXCEPT !.pc = "forwarded", !.inst = inst,
               !.fwd = Forward(call.op, call.args), !.fwdCount = @ + 1]

\* process.env.WEB3_TIMEOUT || ""
OrEmpty(e) == IF e = EnvUnset \/ e = <<>> THEN <<>> ELSE e

\* the value of a decimal digit
DigitValue(ch) == IF ch = "7" THEN 7 ELSE 0

\* parseInt on this alphabet: the number the leading run of decimal digits
\* denotes, <<n>>, or NaN, <<>>, when the string starts with no digit
RECURSIVE ParseDigits(_, _)
ParseDigits(s, acc) ==
  IF s # <<>> /\ Head(s) \in {"0", "7"}
  THEN ParseDigits(Tail(s), acc * 10 + DigitValue(Head(s)))
  ELSE acc

parseInt(s) ==
  IF s # <<>> /\ Head(s) \in {"0", "7"} THEN <<ParseDigits(s, 0)>> ELSE <<>>

\* x || undefined for a number: NaN and 0 are falsy; undefined is <<>>
OrUndefined(x) == IF x = <<>> \/ x = <<0>> THEN <<>> ELSE x

\* variant: the timeout is taken only from a value that is all digits
Web3TimeoutStrict(e) ==
  IF e # EnvUnset /\ e # <<>> /\ \A i \in 1..Len(e) : e[i] \in {"0", "7"}
  THEN parseInt(e)
  ELSE <<>>

\* parseInt(process.env.WEB3_TIMEOUT || "") || undefined
Web3Timeout(e) == OrUndefined(parseInt(OrEmpty(e)))

\* the options object given to Injector.createAsync
EngineConfig(e) ==
  [log |-> "this.logger", repositoryPath |-> "this.fileService.repositoryPath",
   fileService |-> "this.fileService", web3timeout |-> Web3Timeout(e)]

\* variant: a call that finds a construction in progress waits for it on a
\* signal that nothing ever sends
DelegateAwaitsPending(c, op, args) ==
  /\ calls[c].pc \in {"idle", "done", "failed"}
  /\ started < MaxCalls
  /\ started' = started + 1
  /\ LET call == [IdleCall EXCEPT !.op = op, !.args = args,
                                  !.afterFail = ctorFailed]
     IN IF injector = Undefined
        THEN IF \E d \in Callers : calls[d].pc = "constructing"
             THEN /\ ctorCalls' = ctorCalls
                  /\ calls' = [calls EXCEPT ![c] = [call EXCEPT !.pc = "waiting"]]
             ELSE /\ ctorCalls' = ctorCalls + 1
                  /\ calls' = [calls EXCEPT ![c] =
                                 [call EXCEPT !.pc = "constructing", !.ctors = 1,
                                              !.config = EngineConfig(env)]]
        ELSE /\ ctorCalls' = ctorCalls
             /\ calls' = [calls EXCEPT ![c] = Forwarded(call, injector)]
  /\ UNCHANGED <<injector, instances, writes, ctorFailed, meta, log, lookup, lookups, env>>

\* if (!this.injector) { this.injector = await Injector.createAsync(...) }
\* return this.injector.<op>(...)
\* up to the first suspension: either createAsync is invoked and the call
\* suspends at the await, or the engine method is invoked at once.
Delegate(c, op, args) ==
  /\ calls[c].pc \in {"idle", "done", "failed"}
  /\ started < MaxCalls
  /\ started' = started + 1
  /\ LET call == [IdleCall EXCEPT !.op = op, !.args = args,
                                  !.afterFail = ctorFailed]
     IN IF injector = Undefined
        THEN /\ ctorCalls' = ctorCalls + 1
             /\ calls' = [calls EXCEPT ![c] =
                            [call EXCEPT !.pc = "constructing", !.ctors = 1,
                                         !.config = EngineConfig(env)]]
        ELSE /\ ctorCalls' = ctorCalls
             /\ calls' = [calls EXCEPT ![c] = Forwarded(call, injector)]
  /\ UNCHANGED <<injector, instances, writes, ctorFailed, meta, log, lookup, lookups, env>>

inject(c) == \E args \in ArgsOf("inject") : Delegate(c, "inject", args)

verifyCreate2(c) ==
  \E args \in ArgsOf("verifyCreate2") : Delegate(c, "verifyCreate2", args)

recompile(c) == \E args \in ArgsOf("recompile") : Delegate(c, "recompile", args)

getBytecode(c) == \E args \in ArgsOf("getBytecode") : Delegate(c, "getBytecode", args)

\* variant: the engine method is invoked on the handle as it was before the
\* new instance is assigned
CreateResolveForwardsStale(c) ==
  /\ calls[c].pc = "constructing"
  /\ instances' = instances + 1
  /\ injector' = instances + 1
  /\ writes' = Append(writes, instances + 1)
  /\ calls' = [calls EXCEPT ![c] = Forwarded(calls[c], injector)]
  /\ UNCHANGED <<ctorCalls, ctorFailed, started, meta, log, lookup, lookups, env>>

\* Injector.createAsync resolves: the continuation assigns the new instance to
\* this.injector and invokes the engine method on this.injector.
CreateResolve(c) ==
  /\ calls[c].pc = "constructing"
  /\ instances' = instances + 1
  /\ injector' = instances + 1
  /\ writes' = Append(writes, instances + 1)
  /\ calls' = [calls EXCEPT ![c] = Forwarded(calls[c], injector')]
  /\ UNCHANGED <<ctorCalls, ctorFailed, started, meta, log, lookup, lookups, env>>

\* the record kept of a call whose promise has settled: the frame (operation,
\* arguments, request) is gone, the settlement and its history stay
Settled(call, pc, engOut, outcome) ==
  [call EXCEPT !.pc = pc, !.op = "none", !.args = <<>>, !.fwd = NoRequest,
               !.engOut = engOut, !.outcome = outcome]

\* variant: a rejected construction leaves a broken handle (-1) behind
CreateRejectPoisons(c) ==
  /\ calls[c].pc = "constructing"
  /\ calls' = [calls EXCEPT ![c] =
                 Settled(calls[c], "failed", NoOutcome, ConstructionFailure)]
  /\ ctorFailed' = TRUE
  /\ injector' = -1
  /\ UNCHANGED <<ctorCalls, instances, writes, started, meta, log, lookup, lookups, env>>

\* Injector.createAsync rejects: the await throws, nothing is assigned and
\* the call's promise rejects with the construction error.
CreateReject(c) ==
  /\ calls[c].pc = "constructing"
  /\ calls' = [calls EXCEPT ![c] =
                 Settled(calls[c], "failed", NoOutcome, ConstructionFailure)]
  /\ ctorFailed' = TRUE
  /\ UNCHANGED <<injector, ctorCalls, instances, writes, started, meta, log, lookup, lookups, env>>

\* the engine method's promise settles, and with it the caller's
EngineSettle(c) ==
  /\ calls[c].pc = "forwarded"
  /\ \E out \in EngineOutcomes :
       calls' = [calls EXCEPT ![c] = Settled(calls[c], "done", out, Settle(out))]
  /\ UNCHANGED <<injector, ctorCalls, instances, writes, ctorFailed, started, meta, log, lookup, lookups, env>>

NextEngine ==
  \E c \in Callers :
    \/ inject(c)
    \/ verifyCreate2(c)
    \/ recompile(c)
    \/ getBytecode(c)
    \/ CreateResolve(c)
    \/ CreateReject(c)
    \/ EngineSettle(c)

SpecEngine == Init /\ [][NextEngine]_vars

\* the event loop resumes a call once the promise it awaits has settled, and
\* every construction and every engine operation settles
EngineFairness ==
  \A c \in Callers :
    /\ WF_vars(CreateResolve(c) \/ CreateReject(c))
    /\ WF_vars(EngineSettle(c))

SpecEngineFair == SpecEngine /\ EngineFairness

\* the steps that decide whether and how an engine is constructed, for any
\* value of WEB3_TIMEOUT; the settlement of an engine operation neither
\* constructs an engine nor touches the handle
NextConstruction ==
  \E c \in Callers :
    \/ started < MaxObservedCalls /\ inject(c)
    \/ started < MaxObservedCalls /\ verifyCreate2(c)
    \/ started < MaxObservedCalls /\ recompile(c)
    \/ started < MaxObservedCalls /\ getBytecode(c)
    \/ CreateResolve(c)
    \/ CreateReject(c)

SpecConstruction == InitAnyEnv /\ [][NextConstruction]_vars

(***************************************************************************)
(* Metadata resolution: getMetadataFromJsonInput.                          *)
(***************************************************************************)
Null == "<null>"

\* !x for a string or null
Falsy(x) == x = Null \/ x = ""

\* !x for an optional metadata string: undefined and the empty string
NoMetadata(md) == md = Absent \/ md = <<>>

\* findContractPathFromContractName: the first file path, in key order,
\* whose contracts include contractName; null when there is none
RECURSIVE FirstPathFrom(_, _, _)
FirstPathFrom(i, contracts, contractName) ==
  IF i > Len(PathOrder) THEN Null
  ELSE IF PathOrder[i] \in DOMAIN contracts
          /\ contractName \in DOMAIN contracts[PathOrder[i]]
       THEN PathOrder[i]
       ELSE FirstPathFrom(i + 1, contracts, contractName)

findContractPathFromContractName(contracts, contractName) ==
  FirstPathFrom(1, contracts, contractName)

\* String.prototype.trim: whitespace removed at both ends
RECURSIVE TrimStart(_)
TrimStart(s) ==
  IF s # <<>> /\ Head(s) = " " THEN TrimStart(Tail(s)) ELSE s

RECURSIVE TrimEnd(_)
TrimEnd(s) ==
  IF s # <<>> /\ s[Len(s)] = " " THEN TrimEnd(SubSeq(s, 1, Len(s) - 1)) ELSE s

Trim(s) == TrimEnd(TrimStart(s))

\* JSON.parse on this alphabet: whitespace, a number, whitespace, end of text
RECURSIVE SkipWs(_, _)
SkipWs(s, i) == IF i <= Len(s) /\ s[i] = " " THEN SkipWs(s, i + 1) ELSE i

RECURSIVE ReadDigits(_, _, _)
ReadDigits(s, i, acc) ==
  IF i <= Len(s) /\ s[i] = "7"
  THEN ReadDigits(s, i + 1, [pos |-> i + 1, val |-> acc.val * 10 + 7])
  ELSE acc

JSONparse(s) ==
  LET start == SkipWs(s, 1)
      num == ReadDigits(s, start, [pos |-> start, val |-> 0])
      stop == SkipWs(s, num.pos)
  IN IF num.pos > start /\ stop > Len(s)
     THEN [ok |-> TRUE, json |-> <<num.val>>]
     ELSE [ok |-> FALSE, json |-> NoJson]

SyntaxError == [name |-> "SyntaxError", message |-> <<"Unexpected token in JSON">>]

\* variant: the diagnostics are not filtered by severity
RECURSIVE AllLines(_)
AllLines(errors) ==
  IF errors = <<>> THEN <<>>
  ELSE <<Head(errors).formattedMessage>> \o AllLines(Tail(errors))

\* output.errors.filter(e => e.severity === "error").map(e => e.formattedMessage)
RECURSIVE ErrorLines(_)
ErrorLines(errors) ==
  IF errors = <<>> THEN <<>>
  ELSE IF Head(errors).severity = "error"
       THEN <<Head(errors).formattedMessage>> \o ErrorLines(Tail(errors))
       ELSE ErrorLines(Tail(errors))

\* lines.join("\n"): the text as its pieces, the empty text for no lines
RECURSIVE Join(_)
Join(lines) ==
  IF lines = <<>> THEN <<>>
  ELSE IF Len(lines) = 1 THEN lines
       ELSE <<Head(lines), "\n">> \o Join(Tail(lines))

Throw(err) == [kind |-> "throw", json |-> NoJson, error |-> err]

Return(json) == [kind |-> "return", json |-> json, error |-> NoError]

\* variant: the artifact is read under the first file of the output instead
\* of under contractPath
ResolveFromFirstFile(compilerVersion, contractName, output) ==
  LET contractPath == findContractPathFromContractName(output.contracts, contractName)
      first == IF PathOrder[1] \in DOMAIN output.contracts THEN PathOrder[1] ELSE contractPath
  IN IF Falsy(contractPath)
     THEN [result |-> Throw([name |-> "Error",
                             message |-> <<"Contract ", contractName,
                                           " not found in compiler output">>]),
           entries |-> <<>>]
     ELSE IF \/ first \notin DOMAIN output.contracts
             \/ contractName \notin DOMAIN output.contracts[first]
             \/ NoMetadata(output.contracts[first][contractName].metadata)
     THEN LET errorMessages == Join(ErrorLines(output.errors))
          IN [result |-> Throw([name |-> "Error",
                                message |-> <<"Compiler error:\n ">> \o errorMessages]),
              entries |-> <<[NoEntry EXCEPT !.level = "error",
                                            !.loc = "[VERIFY-WITH-JSON]",
                                            !.contractPath = contractPath,
                                            !.contractName = contractName,
                                            !.compilerVersion = compilerVersion,
                                            !.errorMessages = errorMessages]>>]
     ELSE LET parsed == JSONparse(Trim(output.contracts[first][contractName].metadata))
          IN [result |-> IF parsed.ok THEN Return(parsed.json) ELSE Throw(SyntaxError),
              entries |-> <<>>]

\* getMetadataFromJsonInput after the await: the promise's settlement and the
\* entries written to the logger
ResolveFromOutput(compilerVersion, contractName, output) ==
  LET contractPath == findContractPathFromContractName(output.contracts, contractName)
  IN IF Falsy(contractPath)
     THEN [result |-> Throw([name |-> "Error",
                             message |-> <<"Contract ", contractName,
                                           " not found in compiler output">>]),
           entries |-> <<>>]
     ELSE IF \/ contractPath \notin DOMAIN output.contracts
             \/ contractName \notin DOMAIN output.contracts[contractPath]
             \/ NoMetadata(output.contracts[contractPath][contractName].metadata)
     THEN LET errorMessages == Join(ErrorLines(output.errors))
          IN [result |-> Throw([name |-> "Error",
                                message |-> <<"Compiler error:\n ">> \o errorMessages]),
              entries |-> <<[NoEntry EXCEPT !.level = "error",
                                            !.loc = "[VERIFY-WITH-JSON]",
                                            !.contractPath = contractPath,
                                            !.contractName = contractName,
                                            !.compilerVersion = compilerVersion,
                                            !.errorMessages = errorMessages]>>]
     ELSE LET parsed == JSONparse(Trim(output.contracts[contractPath][contractName].metadata))
          IN [result |-> IF parsed.ok THEN Return(parsed.json) ELSE Throw(SyntaxError),
              entries |-> <<>>]

\* the call up to  await useCompiler(compilerVersion, compilerJson, this.logger)
getMetadataFromJsonInput ==
  /\ meta.pc = "idle"
  /\ \E compilerVersion \in Versions, contractName \in Names :
       meta' = [IdleMeta EXCEPT !.pc = "compiling",
                                !.compilerVersion = compilerVersion,
                                !.contractName = contractName]
  /\ UNCHANGED <<log, engineVars, lookup, lookups, env>>

\* useCompiler resolves with an output document; the rest of the function
\* runs without suspending
UseCompilerResolve ==
  /\ meta.pc = "compiling"
  /\ \E output \in CompilerOutputs :
       LET r == ResolveFromOutput(meta.compilerVersion, meta.contractName, output)
       IN /\ meta' = [meta EXCEPT !.pc = "done", !.output = output,
                                  !.searched = TRUE, !.result = r.result]
          /\ log' = log \o r.entries
  /\ UNCHANGED <<engineVars, lookup, lookups, env>>

\* variant: an invocation error is caught and reported as a compiler error
UseCompilerRejectWrapped ==
  /\ meta.pc = "compiling"
  /\ \E err \in InvocationErrors :
       /\ meta' = [meta EXCEPT !.pc = "done", !.compilerError = err,
                     !.result = Throw([name |-> "Error",
                                       message |-> <<"Compiler error:\n ">> \o err.message])]
       /\ log' = Append(log, [NoEntry EXCEPT !.level = "error",
                                             !.loc = "[VERIFY-WITH-JSON]",
                                             !.contractName = meta.contractName,
                                             !.compilerVersion = meta.compilerVersion,
                                             !.errorMessages = err.message])
  /\ UNCHANGED <<engineVars, lookup, lookups, env>>

\* useCompiler rejects: the await throws and nothing in the function catches
UseCompilerReject ==
  /\ meta.pc = "compiling"
  /\ \E err \in InvocationErrors :
       meta' = [meta EXCEPT !.pc = "done", !.compilerError = err,
                            !.result = Throw(err)]
  /\ UNCHANGED <<log, engineVars, lookup, lookups, env>>

NextMeta ==
  \/ getMetadataFromJsonInput
  \/ UseCompilerResolve
  \/ UseCompilerReject

SpecMeta == Init /\ [][NextMeta]_vars

\* lookups and metadata resolutions around the first delegated engine call:
\* any of them may run before the call, while its construction or its engine
\* operation is pending, and after it has settled
NextFrame ==
  \/ lookups = 0 /\ NextMeta
  \/ meta.pc = "idle" /\ NextLookup
  \/ started = 0 /\ (inject(1) \/ verifyCreate2(1) \/ recompile(1) \/ getBytecode(1))
  \/ \E c \in Callers : CreateResolve(c) \/ CreateReject(c) \/ EngineSettle(c)

SpecFrame == Init /\ [][NextFrame]_vars

(***************************************************************************)
(* The whole service. The three groups of operations share only the logger *)
(* and are independent otherwise; SpecLookup, SpecEngine and SpecMeta are  *)
(* its restrictions to one group each.                                     *)
(***************************************************************************)
Next ==
  \/ NextLookup
  \/ NextEngine
  \/ NextMeta

Spec == Init /\ [][Next]_vars

(***************************************************************************)
(* Properties of the address lookups and of metadata resolution.           *)
(***************************************************************************)
\* C3: whatever failure the repository store signals, for every address and
\* chain, findByAddress and findAllByAddress do not raise and return the
\* empty sequence.
C3_LookupFailureSwallowed ==
  lookup.store.kind = "fail" =>
    lookup.result = [kind |-> "return", matches |-> <<>>, error |-> "none"]

\* findAllByAddress has met an I/O error of the store
C3_Witness ==
  /\ lookup.op = "findAllByAddress"
  /\ lookup.store.kind = "fail" /\ lookup.store.error = "io-error"
  /\ lookup.result.kind = "return"

\* C14: every findByAddress or findAllByAddress call makes exactly one
\* access to the store, to the lookup of the same name, whether the access
\* succeeds or fails: no retry, no fallback to the other lookup.
C14_OneStoreAccess ==
  lookup.op # "none" =>
    /\ lookup.accesses = 1
    /\ lookup.storeMethod = lookup.op
    /\ lookup.store.kind \in {"ok", "fail"}

\* a failed findByAddress, after an earlier lookup
C14_Witness ==
  /\ lookup.op = "findByAddress" /\ lookup.store.kind = "fail"
  /\ lookups = 2 /\ lookup.accesses = 1

\* the entries the last lookup wrote to the logger
WrittenByLookup == SubSeq(log, lookup.logBefore + 1, Len(log))

\* C15: a lookup writes exactly one informational entry, carrying the
\* looked-up address, when the store fails, and no entry when it succeeds.
C15_LookupLogging ==
  lookup.op # "none" =>
    IF lookup.store.kind = "fail"
    THEN /\ Len(WrittenByLookup) = 1
         /\ WrittenByLookup[1].level = "info"
         /\ WrittenByLookup[1].address = lookup.address
    ELSE WrittenByLookup = <<>>

\* a failed lookup of 0xb after a failed lookup of 0xa
C15_Witness ==
  /\ lookup.store.kind = "fail" /\ lookup.address = "0xb"
  /\ Len(log) = 2 /\ log[1].address = "0xa" /\ log[2].address = "0xb"

\* C17: when the store's lookup succeeds, the call returns exactly the
\* sequence of matches the store returned: same elements, same order.
C17_MatchesPassedThrough ==
  lookup.store.kind = "ok" =>
    lookup.result = [kind |-> "return", matches |-> lookup.store.matches, error |-> "none"]

\* the store has returned two different matches
C17_Witness ==
  /\ lookup.op = "findAllByAddress" /\ lookup.store.kind = "ok"
  /\ lookup.store.matches = <<"match2", "match1">>
  /\ lookup.result.matches = <<"match2", "match1">>

\* the file paths of an output under which a contract name appears
PathsWith(output, contractName) ==
  {p \in DOMAIN output.contracts : contractName \in DOMAIN output.contracts[p]}

\* a JSON text of this alphabet: one run of digits, whitespace around it
IsJsonText(s) ==
  \E i, j \in 1..Len(s) :
    /\ i <= j
    /\ \A k \in 1..Len(s) : IF i <= k /\ k <= j THEN s[k] = "7" ELSE s[k] = " "

\* the number such a text denotes
JsonValue(s) == (7 * (10 ^ Cardinality({k \in 1..Len(s) : s[k] = "7"}) - 1)) \div 9

\* the metadata string of the target contract, when exactly one file has it
TargetMetadata ==
  LET p == CHOOSE p \in PathsWith(meta.output, meta.contractName) : TRUE
  IN meta.output.contracts[p][meta.contractName].metadata

C4_Case ==
  /\ meta.pc = "done" /\ meta.output.present
  /\ Cardinality(PathsWith(meta.output, meta.contractName)) = 1
  /\ TargetMetadata # Absent /\ TargetMetadata # <<>>
  /\ IsJsonText(TargetMetadata)

\* C4: when exactly one file path has the target contract and its artifact
\* carries a non-empty metadata string that is valid JSON, the call returns
\* the JSON value of that string and neither raises nor logs a failure.
C4_MetadataReturned ==
  C4_Case =>
    /\ meta.result = Return(<<JsonValue(TargetMetadata)>>)
    /\ \A i \in 1..Len(log) : log[i].level # "error"

\* the target sits in the second file only, its metadata ending in whitespace
C4_Witness ==
  /\ C4_Case
  /\ PathsWith(meta.output, meta.contractName) = {"B.sol"}
  /\ "A.sol" \in DOMAIN meta.output.contracts
  /\ TargetMetadata = <<"7", " ">>
  /\ meta.result.json = <<7>>

\* C5: when no file path has the target contract, the call fails and the
\* failure's diagnostic text is the formatted messages of the diagnostics of
\* severity "error", in order, joined by newlines (empty when there are none).
C5_MissingContractDiagnostics ==
  (meta.pc = "done" /\ meta.output.present
     /\ PathsWith(meta.output, meta.contractName) = {}) =>
    /\ meta.result.kind = "throw"
    /\ meta.result.error.message \in
         {Join(ErrorLines(meta.output.errors)),
          <<"Compiler error:\n ">> \o Join(ErrorLines(meta.output.errors))}

\* C9: when useCompiler fails, the call fails with that same error, unchanged;
\* no contract search is made and no failure entry is logged.
C9_InvocationErrorPropagated ==
  (meta.pc = "done" /\ meta.compilerError # NoError) =>
    /\ meta.result = Throw(meta.compilerError)
    /\ ~meta.searched
    /\ meta.output = NoOutput
    /\ \A i \in 1..Len(log) : log[i].level # "error"

\* the compiler download has failed
C9_Witness ==
  /\ meta.pc = "done"
  /\ meta.compilerError.name = "FetchError"
  /\ meta.result.kind = "throw"

\* the file path the search settles on: the first, in key order, that has
\* the contract
ResolvedPath ==
  LET hits == {i \in 1..Len(PathOrder) :
                 PathOrder[i] \in PathsWith(meta.output, meta.contractName)}
  IN PathOrder[CHOOSE i \in hits : \A j \in hits : i <= j]

\* the messages of the "error" diagnostics, in order, newlines between them
IsErrorDiagnostic(e) == e.severity = "error"

DiagnosticText(errors) ==
  LET es == SelectSeq(errors, IsErrorDiagnostic)
  IN [i \in 1..(2 * Len(es) - 1) |->
        IF i % 2 = 1 THEN es[(i + 1) \div 2].formattedMessage ELSE "\n"]

\* the failure raised for a compilation that did not yield the metadata
CompilationError(errors) ==
  Throw([name |-> "Error", message |-> <<"Compiler error:\n ">> \o DiagnosticText(errors)])

ErrorEntries == SelectSeq(log, LAMBDA e : e.level = "error")

C11_Case ==
  /\ meta.pc = "done" /\ meta.output.present
  /\ PathsWith(meta.output, meta.contractName) # {}
  /\ meta.output.contracts[ResolvedPath][meta.contractName].metadata \in {Absent, <<>>}

\* C11: when the target contract is found under a file path but its artifact
\* has no metadata or an empty metadata string, the call fails with the
\* compilation error carrying the newline-joined "error" messages, also when
\* no diagnostic is an error (empty text); it never returns.
C11_MissingMetadataRaises ==
  C11_Case => meta.result = CompilationError(meta.output.errors)

\* the metadata string is empty and the only diagnostic is a warning
C11_Witness ==
  /\ C11_Case
  /\ meta.output.contracts[ResolvedPath][meta.contractName].metadata = <<>>
  /\ Len(meta.output.errors) = 1 /\ meta.output.errors[1].severity = "warning"
  /\ meta.result.kind = "throw"
  /\ meta.result.error.message = <<"Compiler error:\n ">>

\* C12: whenever the call fails because the target contract or its metadata
\* is missing from the output, exactly one failure entry has been logged,
\* carrying the aggregated error text, the contract name, the compiler
\* version and the resolved (possibly absent) file path.
C12_FailureLoggedOnce ==
  (meta.pc = "done" /\ meta.output.present
     /\ (PathsWith(meta.output, meta.contractName) = {} \/ C11_Case)) =>
    /\ meta.result.kind = "throw"
    /\ Len(ErrorEntries) = 1
    /\ ErrorEntries[1].errorMessages = DiagnosticText(meta.output.errors)
    /\ ErrorEntries[1].contractName = meta.contractName
    /\ ErrorEntries[1].compilerVersion = meta.compilerVersion
    /\ ErrorEntries[1].contractPath =
         IF PathsWith(meta.output, meta.contractName) = {} THEN Null ELSE ResolvedPath

\* C13: when the target's metadata string is non-empty but not valid JSON,
\* the call fails with the same compilation error as for missing metadata.
C13_ParseFailureIsCompilationError ==
  (/\ meta.pc = "done" /\ meta.output.present
   /\ PathsWith(meta.output, meta.contractName) # {}
   /\ meta.output.contracts[ResolvedPath][meta.contractName].metadata \notin {Absent, <<>>}
   /\ ~IsJsonText(meta.output.contracts[ResolvedPath][meta.contractName].metadata)) =>
    meta.result = CompilationError(meta.output.errors)

(***************************************************************************)
(* Properties of the engine handle and the delegated operations.           *)
(***************************************************************************)
InEngine(call) == call.pc \in {"forwarded", "done"}

\* C1: while no construction has failed, Injector.createAsync is invoked at
\* most once in total and no second engine instance is ever constructed,
\* however many delegated calls start while the handle is uninitialized.
C1_SingleConstruction ==
  ~ctorFailed => (ctorCalls <= 1 /\ instances <= 1)

\* C2: all delegated calls that found the handle uninitialized forward their
\* engine operation to one and the same engine instance.
C2_FirstCallersShareInstance ==
  \A c, d \in Callers :
    (InEngine(calls[c]) /\ calls[c].ctors = 1 /\ InEngine(calls[d]) /\ calls[d].ctors = 1)
      => calls[c].inst = calls[d].inst

\* C6: a rejected construction fails its call with the construction failure,
\* forwards no engine operation for it and leaves the handle as it was;
\* a call that starts while the handle is uninitialized, also after such a
\* failure, invokes the constructor again, and when that construction
\* resolves the call forwards to the handle it has just set.
C6_ConstructionFailureNotPoisoning ==
  [][\A c \in Callers :
       /\ (calls[c].pc = "constructing" /\ calls'[c].pc = "failed") =>
            /\ calls'[c].outcome = ConstructionFailure
            /\ calls'[c].fwdCount = 0
            /\ calls'[c].inst = Undefined
            /\ injector' = injector
       /\ (calls[c].pc \in {"idle", "done", "failed"} /\ calls'[c] # calls[c]
             /\ injector \notin 1..instances) =>
            /\ calls'[c].pc = "constructing"
            /\ ctorCalls' = ctorCalls + 1
       /\ (calls[c].pc = "constructing" /\ calls'[c].pc # "failed"
             /\ calls'[c] # calls[c]) =>
            /\ injector' \in 1..instances'
            /\ calls'[c].pc = "forwarded"
            /\ calls'[c].inst = injector'
            /\ calls'[c].fwdCount = 1
  ]_vars

\* a call that started after a construction had failed has constructed the
\* engine itself and completed normally, next to a call that failed
C6_Witness ==
  \E c, d \in Callers :
    /\ calls[c].pc = "failed" /\ calls[c].outcome = ConstructionFailure
    /\ calls[d].pc = "done" /\ calls[d].ctors = 1 /\ calls[d].afterFail
    /\ calls[d].outcome.kind = "ok" /\ calls[d].inst = injector

\* C7: every delegated call that starts after the handle has been set
\* constructs nothing and forwards to the instance the handle holds, and all
\* such calls use the same instance, the one the handle was first set to.
C7_ReadyHandleIdempotent ==
  [][\A c \in Callers :
       (calls[c].pc \in {"idle", "done", "failed"} /\ calls'[c] # calls[c]
         /\ injector # Undefined) =>
            /\ ctorCalls' = ctorCalls
            /\ calls'[c].ctors = 0
            /\ calls'[c].inst = injector
            /\ calls'[c].inst = writes[1]
  ]_vars

\* C8: a call whose engine is available has invoked the engine method of its
\* own operation exactly once with its own arguments, and it settles exactly
\* as the engine's promise settles: result or failure, unchanged, no retry.
C8_ForwardedUnchanged ==
  \A c \in Callers :
    /\ calls[c].pc \in {"idle", "constructing", "failed"} => calls[c].fwdCount = 0
    /\ calls[c].pc = "forwarded" =>
         /\ calls[c].fwdCount = 1
         /\ calls[c].fwd.method = calls[c].op
         /\ calls[c].fwd.args = calls[c].args
    /\ calls[c].pc = "done" =>
         /\ calls[c].fwdCount = 1
         /\ calls[c].engOut \in EngineOutcomes
         /\ calls[c].outcome = calls[c].engOut

\* one call has had an engine failure propagated, another has its request
\* (not an inject) at the engine
C8_Witness ==
  \E c, d \in Callers :
    /\ calls[c].pc = "done" /\ calls[c].outcome.kind = "fail"
    /\ calls[d].pc = "forwarded" /\ calls[d].op = "verifyCreate2"
    /\ calls[d].fwd.args = <<"c2", "deployer2", "salt2", "args2", "addr2">>

\* C10: the handle is written at most once, and once it holds an engine
\* instance it holds that instance in every later state.
C10_HandleWrittenOnce ==
  /\ Len(writes) <= 1
  /\ injector # Undefined => injector = writes[1]

\* C19: an engine operation is forwarded only to an instance that has been
\* constructed and assigned to the handle: no call forwards while the handle
\* is uninitialized.
C19_ForwardOnlyToConstructed ==
  \A c \in Callers :
    calls[c].fwdCount > 0 =>
      /\ calls[c].inst # Undefined
      /\ calls[c].inst \in 1..instances
      /\ \E i \in 1..Len(writes) : writes[i] = calls[c].inst

\* one call is at the engine it has just constructed, another at the engine
\* it found in the handle
C19_Witness ==
  \E c, d \in Callers :
    /\ calls[c].pc = "forwarded" /\ calls[c].ctors = 1
    /\ calls[d].pc = "forwarded" /\ calls[d].ctors = 0
    /\ calls[c].inst = injector /\ calls[d].inst = injector

InFlight(c) == calls[c].pc \notin {"idle", "done", "failed"}

\* C20: when every construction and every engine operation settles, every
\* delegated call that has started eventually completes, with a result or a
\* failure.
C20_EveryCallCompletes ==
  \A c \in Callers : InFlight(c) ~> (calls[c].pc \in {"done", "failed"})

\* all calls of the behaviour are over: one failed in construction, one that
\* started after that failure has completed
C20_Witness ==
  /\ started = MaxCalls
  /\ \A c \in Callers : ~InFlight(c)
  /\ \E c, d \in Callers :
       /\ calls[c].pc = "failed"
       /\ calls[d].pc = "done" /\ calls[d].afterFail

(***************************************************************************)
(* The configuration an engine is constructed with.                        *)
(***************************************************************************)
IsDigit(ch) == ch \in {"0", "7"}

\* the environment value is set, non-empty and all decimal digits
Numeric(e) == e # EnvUnset /\ Len(e) > 0 /\ \A i \in 1..Len(e) : IsDigit(e[i])

\* the number a string of decimal digits denotes, read from its last digit
RECURSIVE DecimalOf(_)
DecimalOf(s) ==
  IF s = <<>> THEN 0
  ELSE 10 * DecimalOf(SubSeq(s, 1, Len(s) - 1))
         + (IF s[Len(s)] = "7" THEN 7 ELSE 0)

\* the longest all-digit prefix of a set environment value
LeadingDigits(e) ==
  LET k == CHOOSE n \in 0..Len(e) :
             /\ \A i \in 1..n : IsDigit(e[i])
             /\ n < Len(e) => ~IsDigit(e[n + 1])
  IN SubSeq(e, 1, k)

\* the calls that have invoked Injector.createAsync
Constructors == {c \in Callers : calls[c].config # NoConfig}

\* the options every construction gets, but for the timeout
SameOptions(cfg) ==
  /\ cfg.log = "this.logger"
  /\ cfg.repositoryPath = "this.fileService.repositoryPath"
  /\ cfg.fileService = "this.fileService"

NonEngineStep == lookups' # lookups \/ meta' # meta

\* the step in which a delegated operation's construction resolves
ConstructionResolves ==
  \E c \in Callers :
    /\ calls[c].pc = "constructing"
    /\ calls[c].op \in Ops
    /\ calls'[c].pc # "constructing"

\* C18: findByAddress, findAllByAddress and the metadata resolution leave the
\* engine handle unchanged and construct no engine, whatever their outcome;
\* the handle leaves the uninitialized state only in a step of inject,
\* verifyCreate2, recompile or getBytecode.
C18_LookupsLeaveEngineAlone ==
  [][ /\ NonEngineStep =>
           /\ injector' = injector
           /\ ctorCalls' = ctorCalls
           /\ instances' = instances
           /\ writes' = writes
           /\ calls' = calls
      /\ (injector = Undefined /\ injector' # Undefined) => ConstructionResolves
    ]_vars

\* a lookup has failed in the store while a delegated call's construction is
\* pending: the handle is still uninitialized and that construction is the
\* only one
C18_Witness ==
  /\ lookup.store.kind = "fail" /\ lookup.result.kind = "return"
  /\ \E c \in Callers : calls[c].pc = "constructing"
  /\ injector = Undefined /\ ctorCalls = 1 /\ instances = 0

====
